---- MODULE Spec2Model ----
(***************************************************************************)
(* Backward (reverse-mode) implementations of the ONNX operators of        *)
(* daceml/autodiff/implementations/onnx_ops.py: the einsum reversal, and   *)
(* the Einsum, cuDNN Conv and cuDNN BatchNormalization backward builders   *)
(* driven over a forward state, with the completion hooks they register.   *)
(***************************************************************************)
EXTENDS Integers, Sequences, FiniteSets, TLC

(***************************************************************************)
(* Bounds of the model.                                                    *)
(***************************************************************************)
\* the largest number of operands of an einsum equation
MaxOperands == 3

\* the largest number of backward() calls of one backward pass
MaxVisits == 2

\* the largest number of backward_can_be_applied calls on one forward state
MaxProbes == 3

\* the largest one-digit id of an sdfg, a state or a node that is tried
MaxId == 1

\* the largest value of an element of a tensor given to a backward program
MaxVal == 1

(***************************************************************************)
(* Strings.  An equation is a Python str: here a sequence of one-character *)
(* strings, so that splitting and joining are computed, not assumed.       *)
(***************************************************************************)
\* the index expressions an operand (or the output) of an equation may have
OperandExprs ==
    { <<>>, <<"i">>, <<"j">>, <<"i", "j">>, <<"j", "i">>, <<"i", "i">> }

\* str.join: the strings of parts with sep between consecutive ones
RECURSIVE Join(_, _)
Join(parts, sep) ==
    IF Len(parts) = 0 THEN <<>>
    ELSE IF Len(parts) = 1 THEN parts[1]
    ELSE parts[1] \o sep \o Join(Tail(parts), sep)

\* the first position at which sep occurs in s, 0 when it does not
RECURSIVE FindFrom(_, _, _)
FindFrom(s, sep, i) ==
    IF i + Len(sep) - 1 > Len(s) THEN 0
    ELSE IF SubSeq(s, i, i + Len(sep) - 1) = sep THEN i
    ELSE FindFrom(s, sep, i + 1)

\* str.split(sep): the pieces of s between the occurrences of sep
RECURSIVE Split(_, _)
Split(s, sep) ==
    LET at == FindFrom(s, sep, 1)
    IN  IF at = 0 THEN <<s>>
        ELSE <<SubSeq(s, 1, at - 1)>>
                 \o Split(SubSeq(s, at + Len(sep), Len(s)), sep)

\* einsum.EinsumParser(equation): .inputs and .output of "in_1,..,in_k->out"
EinsumParser(equation) ==
    LET inout == Split(equation, <<"-", ">">>)
    IN  [inputs |-> Split(inout[1], <<",">>), output |-> inout[2]]

\* the connector names "Inputs__<i>" of a variadic parameter
InputsConnectors ==
    <<"Inputs__0", "Inputs__1", "Inputs__2", "Inputs__3", "Inputs__4">>

\* the connector of operand i (0-based)
InputsConn(i) == InputsConnectors[i + 1]

\* donnx.parse_variadic_param(name): the parameter name and the index
parse_variadic_param(name) ==
    <<"Inputs",
      CHOOSE i \in 0..(Len(InputsConnectors) - 1) : InputsConn(i) = name>>

\* list(range(lo, hi)) mapped through f"Inputs__{i}"
RECURSIVE ConnRange(_, _)
ConnRange(lo, hi) ==
    IF lo >= hi THEN <<>> ELSE <<InputsConn(lo)>> \o ConnRange(lo + 1, hi)

\* a slip in the slice: parser.inputs[input_idx:] keeps the target operand
reverse_einsum_keeps_target(equation, input_name) ==
    LET input_idx == parse_variadic_param(input_name)[2]
        parser == EinsumParser(equation)
        n == Len(parser.inputs)
        backward_input_expressions ==
            <<parser.output>> \o SubSeq(parser.inputs, 1, input_idx)
                \o SubSeq(parser.inputs, input_idx + 1, n)
        backward_input_arrays ==
            ConnRange(0, input_idx) \o ConnRange(input_idx, n)
    IN  [arrays |-> backward_input_arrays,
         einsum_str |-> Join(backward_input_expressions, <<",">>)
                            \o <<"-", ">">> \o parser.inputs[input_idx + 1]]

\* a slip in the order: the output expression is appended, not prepended
reverse_einsum_output_last(equation, input_name) ==
    LET input_idx == parse_variadic_param(input_name)[2]
        parser == EinsumParser(equation)
        n == Len(parser.inputs)
        backward_input_expressions ==
            SubSeq(parser.inputs, 1, input_idx)
                \o SubSeq(parser.inputs, input_idx + 2, n) \o <<parser.output>>
        backward_input_arrays ==
            ConnRange(0, input_idx) \o ConnRange(input_idx + 1, n)
    IN  [arrays |-> backward_input_arrays,
         einsum_str |-> Join(backward_input_expressions, <<",">>)
                            \o <<"-", ">">> \o parser.inputs[input_idx + 1]]

\* reverse_einsum_wrt_input(forward_node, input_name): the forward connectors
\* needed as inputs and the einsum string of the gradient w.r.t. input_name
reverse_einsum_wrt_input(equation, input_name) ==
    LET input_idx == parse_variadic_param(input_name)[2]
        parser == EinsumParser(equation)
        n == Len(parser.inputs)
        backward_input_expressions ==
            <<parser.output>> \o SubSeq(parser.inputs, 1, input_idx)
                \o SubSeq(parser.inputs, input_idx + 2, n)
        backward_input_arrays ==
            ConnRange(0, input_idx) \o ConnRange(input_idx + 1, n)
    IN  [arrays |-> backward_input_arrays,
         einsum_str |-> Join(backward_input_expressions, <<",">>)
                            \o <<"-", ">">> \o parser.inputs[input_idx + 1]]

(***************************************************************************)
(* State.                                                                  *)
(***************************************************************************)
VARIABLES
    \* the call of reverse_einsum_wrt_input under study
    operands,      \* the operand expressions in_1..in_k the equation is made of
    out_expr,      \* its output expression
    equation,      \* forward_node.equation, the string
    target,        \* the operand index j (0-based) of input_name
    rev_pc,        \* "start", "once" (reversed), "twice" (reversed again)
    rev1,          \* what the first call returned
    rev2,          \* what the call on rev1.einsum_str w.r.t. Inputs__0 returned
    \* the backward pass over a forward state
    pc,            \* the driver: "visit", "hooks", "done", "aborted"
    visits,        \* the number of backward() calls made so far
    forward_nodes, \* the forward nodes' attributes, by node id
    forward,       \* context.forward_sdfg and context.forward_state
    backward_state,    \* context.backward_state: embedded units and edges
    completion_hooks,  \* context.backward_generator.completion_hooks
    hooks_run,     \* the positions in completion_hooks executed, in order
    last,          \* the last backward() call: its arguments and its result
    before,        \* what outlives a call, as it was before the last call or hook
    \* calls of backward_can_be_applied on the nodes of a forward state
    probes,        \* the number of calls made so far
    probe_prev,    \* the call before the last one: node, graph seen, value
    probe_last,    \* the last call
    \* the identifiers of two forward nodes
    id_pc,         \* "start", "forward" (fwd ids made), "backward" (bwd ids made)
    id_nodes,      \* the two nodes: name, sdfg id, state id, node id
    id_names,      \* per node: fwd_unique_id, unique_id and the handle names
    \* one run of a backward program on tensors
    prog_op,       \* "Softmax", "LogSoftmax" or "GlobalAveragePool"
    prog_pc,       \* the number of statements of the program executed
    prog_args,     \* the node's attributes and the tensors as they were passed
    tensors,       \* the arguments and locals of the program, by name
    applicable,    \* what backward_can_be_applied returned (FALSE before the call)
    writes         \* how often each element of X_grad has been written

rev_vars == <<operands, out_expr, equation, target, rev_pc, rev1, rev2>>

driver_vars == <<pc, visits, forward_nodes, forward, backward_state,
                 completion_hooks, hooks_run, last, before>>

probe_vars == <<probes, probe_prev, probe_last>>

id_vars == <<id_pc, id_nodes, id_names>>

prog_vars == <<prog_op, prog_pc, prog_args, tensors, applicable, writes>>

ext_vars == <<probe_vars, id_vars, prog_vars>>

vars == <<rev_vars, driver_vars, ext_vars>>

\* no call of backward_can_be_applied has been made
NoProbe == [node |-> 0, seen |-> <<>>, value |-> FALSE]

ProbeIdle ==
    /\ probes = 0
    /\ probe_prev = NoProbe
    /\ probe_last = NoProbe

IdIdle ==
    /\ id_pc = "idle"
    /\ id_nodes = <<>>
    /\ id_names = <<>>

ProgIdle ==
    /\ prog_op = ""
    /\ prog_pc = 0
    /\ prog_args = <<>>
    /\ tensors = <<>>
    /\ applicable = FALSE
    /\ writes = <<>>

ExtIdle == ProbeIdle /\ IdIdle /\ ProgIdle

NoResult == [arrays |-> <<>>, einsum_str |-> <<>>]

\* the sequences of 1..MaxOperands operand expressions
OperandLists ==
    UNION { [1..k -> OperandExprs] : k \in 1..MaxOperands }

(***************************************************************************)
(* The forward graph.  Library nodes are numbered 1..NumNodes; the node    *)
(* that replaces node n when it is expanded (lowered) is numbered -n.      *)
(***************************************************************************)
\* the forward nodes of the forward state: operator and label
NodeOps ==
    <<"Einsum", "Conv", "BatchNormalization", "BatchNormalization",
      "Softmax", "LogSoftmax", "GlobalAveragePool", "GlobalAveragePool">>
NodeLabels ==
    <<"einsum", "conv", "bn_a", "bn_b", "softmax", "logsoftmax", "gap_a", "gap_b">>
Nodes == 1..Len(NodeOps)

\* the shape of the arrays on the connectors of each forward node
NodeShapes ==
    <<<<2, 2>>, <<1, 2, 2, 2>>, <<1, 2, 2, 2>>, <<1, 2, 2, 2>>,
      <<2, 2>>, <<2, 2>>, <<1, 2, 2, 2>>, <<2, 2, 2>>>>

\* the equations the forward Einsum node may carry
ForwardEquations ==
    { <<"i", "j", ",", "j", "k", "-", ">", "i", "k">>,
      <<"i", "j", ",", "i", "j", ",", "j", "-", ">", "i">>,
      <<"i", ",", "i", "-", ">">>,
      <<"i", "i", "-", ">", "i">>,
      <<"i", "j", ",", "j", "j", "-", ">", "i">> }

\* the input and output connectors of forward node n before any backward()
InConnectorsOf(attrs) ==
    CASE attrs.op = "Einsum" ->
             { InputsConn(i) :
                   i \in 0..(Len(EinsumParser(attrs.equation).inputs) - 1) }
      [] attrs.op = "Conv" -> {"X", "W", "B"}
      [] attrs.op = "BatchNormalization" -> {"X", "scale", "B"}
      [] attrs.op \in {"Softmax", "LogSoftmax"} -> {"input"}
      [] attrs.op = "GlobalAveragePool" -> {"X"}

OutConnectorsOf(attrs) ==
    CASE attrs.op = "Einsum" -> {"Output"}
      [] attrs.op = "Conv" -> {"Y"}
      [] attrs.op = "BatchNormalization" -> {"Y", "saved_mean", "saved_var"}
      [] attrs.op \in {"Softmax", "LogSoftmax"} -> {"output"}
      [] attrs.op = "GlobalAveragePool" -> {"Y"}

\* the forward array on connector c of the node labelled l
ArrayOf(l, c) == l \o "_" \o c

\* the (node, connector) pairs of the forward nodes with attributes attrs
InPairs(attrs) ==
    UNION { { [node |-> n, conn |-> c] : c \in InConnectorsOf(attrs[n]) } :
                n \in Nodes }

OutPairs(attrs) ==
    UNION { { [node |-> n, conn |-> c] : c \in OutConnectorsOf(attrs[n]) } :
                n \in Nodes }

\* the input connectors fed by an intermediate result of the forward pass
\* (an activation computed by an earlier node, a transient array); the other
\* inputs are parameters or inputs of the forward sdfg
IntermediateInputs == {"X", "input", "Inputs__1"}

\* the forward sdfg and state built around the nodes with attributes attrs:
\* one array and one edge per connector; the arrays a node writes and the
\* intermediate results it reads are transient, the other arrays are not;
\* shapes holds desc.shape of each array
ForwardGraph(attrs) ==
    [arrays |->
        { [name |-> ArrayOf(attrs[p.node].label, p.conn),
           transient |-> p.conn \in IntermediateInputs] :
              p \in InPairs(attrs) }
        \cup
        { [name |-> ArrayOf(attrs[p.node].label, p.conn), transient |-> TRUE] :
              p \in OutPairs(attrs) },
     shapes |->
        { [name |-> ArrayOf(attrs[p.node].label, p.conn),
           shape |-> attrs[p.node].shape] :
              p \in InPairs(attrs) \cup OutPairs(attrs) },
     nodes |-> Nodes,
     in_connectors |-> InPairs(attrs),
     out_connectors |-> OutPairs(attrs),
     edges |->
        { [node |-> p.node, conn |-> p.conn, dir |-> "in",
           data |-> ArrayOf(attrs[p.node].label, p.conn)] : p \in InPairs(attrs) }
        \cup
        { [node |-> p.node, conn |-> p.conn, dir |-> "out",
           data |-> ArrayOf(attrs[p.node].label, p.conn)] : p \in OutPairs(attrs) }]

(***************************************************************************)
(* Names and descriptors (dace.SDFG.add_datadesc and daceml.autodiff.utils) *)
(***************************************************************************)
\* the names of the arrays of an sdfg
Names(arrays) == { a.name : a \in arrays }

IndexSuffixes == <<"_0", "_1", "_2", "_3", "_4", "_5">>

\* SDFG._find_new_name: name with the first "_<index>" that is not taken
RECURSIVE FindNewNameFrom(_, _, _)
FindNewNameFrom(names, name, index) ==
    IF (name \o IndexSuffixes[index + 1]) \in names
    THEN FindNewNameFrom(names, name, index + 1)
    ELSE name \o IndexSuffixes[index + 1]

\* the name add_datadesc(name, desc, find_new_name=True) declares
NewName(names, name) ==
    IF name \in names THEN FindNewNameFrom(names, name, 0) ELSE name

\* dict assignment m[k] = v on a mapping kept as a set of (conn, name) pairs
Put(m, k, v) == { e \in m : e.conn # k } \cup { [conn |-> k, name |-> v] }

Keys(m) == { e.conn : e \in m }
Values(m) == { e.name : e \in m }
Get(m, k) == (CHOOSE e \in m : e.conn = k).name

\* utils.in_desc_with_name / out_desc_with_name: the descriptor of the array
\* on the node's edge with that connector
forward_in_desc_with_name(fwd, n, c) ==
    LET e == CHOOSE e \in fwd.edges : e.node = n /\ e.conn = c /\ e.dir = "in"
    IN  CHOOSE a \in fwd.arrays : a.name = e.data

forward_out_desc_with_name(fwd, n, c) ==
    LET e == CHOOSE e \in fwd.edges : e.node = n /\ e.conn = c /\ e.dir = "out"
    IN  CHOOSE a \in fwd.arrays : a.name = e.data

\* desc.shape of a descriptor of the forward sdfg
desc_shape(fwd, desc) ==
    (CHOOSE s \in fwd.shapes : s.name = desc.name).shape

\* butils.add_backward_desc / add_backward_desc_for_connector: the name of
\* the gradient array declared in the backward sdfg for forward_name
add_backward_desc(arrays, forward_name) ==
    NewName(Names(arrays), forward_name \o "_gradient")

(***************************************************************************)
(* The nested sdfg a backward() builds, and its embedding.                 *)
(*   arrays   nsdfg.arrays: (name, transient)                              *)
(*   reads, writes   the access nodes of nstate, in creation order         *)
(*   einsums  the ONNXEinsum nodes of nstate, in creation order            *)
(*   tasklet  the tasklet of nstate (code as a sequence of statements)     *)
(*   edges    the edges of nstate between these, with the memlet's array   *)
(*   inputs, outputs   the connector sets given to add_nested_sdfg         *)
(***************************************************************************)
NoTasklet ==
    [name |-> "", in_connectors |-> {}, out_connectors |-> {},
     code |-> <<>>, code_init |-> <<>>, code_exit |-> <<>>, state_fields |-> {}]

\* an edge of nstate: (source node, connector) -> (destination node, connector)
Edge(src_kind, src, src_conn, dst_kind, dst, dst_conn, data) ==
    [src_kind |-> src_kind, src |-> src, src_conn |-> src_conn,
     dst_kind |-> dst_kind, dst |-> dst, dst_conn |-> dst_conn, data |-> data]

(***************************************************************************)
(* DefaultEinsumBackward                                                   *)
(***************************************************************************)
\* no label occurs twice in the index expression e
NoRepeatedLabel(e) ==
    \A a, b \in 1..Len(e) : a # b => e[a] # e[b]

\* pure_implementations.PureEinsum.forward_can_be_applied: an equation whose
\* operands repeat no label
PureEinsum_forward_can_be_applied(attrs) ==
    \A p \in 1..Len(EinsumParser(attrs.equation).inputs) :
        NoRepeatedLabel(EinsumParser(attrs.equation).inputs[p])

\* a slip: the check is not delegated, every Einsum node is accepted
Einsum_backward_always_applicable(attrs) == TRUE

\* DefaultEinsumBackward.backward_can_be_applied
Einsum_backward_can_be_applied(attrs) ==
    PureEinsum_forward_can_be_applied(attrs)

\* the state of the builder after lines 66-86: the output gradient is
\* declared and read, nothing else exists
EinsumSetup(fwd, n) ==
    LET given == add_backward_desc({}, "Output")
    IN  [arrays |-> { [name |-> given, transient |-> FALSE] },
         reads |-> <<given>>,
         writes |-> <<>>,
         einsums |-> <<>>,
         edges |-> {},
         required_forward_inputs |-> {},
         given_grad_names |-> { [conn |-> "Output", name |-> given] },
         required_grad_names |-> {}]

\* a slip: an access node is created for every use of a forward input
DeclareForwardInputAlways(b, fwd, n, forward_input) ==
    [b EXCEPT
        !.arrays = @ \cup
            { [name |-> forward_input,
               transient |->
                   forward_in_desc_with_name(fwd, n, forward_input).transient] },
        !.reads = Append(@, forward_input),
        !.required_forward_inputs = Put(@, forward_input, Len(b.reads) + 1)]

\* lines 107-109 with create_access_node (lines 77-82): a forward input not
\* yet in required_forward_inputs is declared and gets its access node
DeclareForwardInput(b, fwd, n, forward_input) ==
    IF forward_input \in Keys(b.required_forward_inputs) THEN b
    ELSE [b EXCEPT
            !.arrays = @ \cup
                { [name |-> forward_input,
                   transient |->
                       forward_in_desc_with_name(fwd, n, forward_input).transient] },
            !.reads = Append(@, forward_input),
            !.required_forward_inputs = Put(@, forward_input, Len(b.reads) + 1)]

\* lines 105-106 and 111-113: the connector of the einsum node created last
\* and the edge to it from the access node of forward_input
ConnectForwardInput(b, forward_input, connector) ==
    [b EXCEPT
        !.einsums[Len(b.einsums)].in_connectors = Append(@, connector),
        !.edges = @ \cup
            { Edge("read", Get(b.required_forward_inputs, forward_input), "",
                   "einsum", Len(b.einsums), connector, forward_input) }]

\* lines 104-113: the loop over enumerate(forward_inputs)
RECURSIVE WireForwardInputs(_, _, _, _, _)
WireForwardInputs(b, fwd, n, forward_inputs, i) ==
    IF i > Len(forward_inputs) THEN b
    ELSE WireForwardInputs(
             ConnectForwardInput(
                 DeclareForwardInput(b, fwd, n, forward_inputs[i]),
                 forward_inputs[i], InputsConn(i)),
             fwd, n, forward_inputs, i + 1)

\* lines 93-101: the einsum node of input_name, its first input fed by the
\* access node of the output gradient (the first read node)
AddEinsumNode(b, input_name, einsum_str) ==
    [b EXCEPT
        !.einsums = Append(@, [name |-> input_name \o "_backward",
                               equation |-> einsum_str,
                               in_connectors |-> <<"Inputs__0">>]),
        !.edges = @ \cup
            { Edge("read", 1, "", "einsum", Len(b.einsums) + 1, "Inputs__0",
                   Get(b.given_grad_names, "Output")) }]

\* lines 117-125: the gradient array grad of input_name is recorded in the
\* result and written from the Output of the einsum node created last
WriteGradient(b, input_name, grad) ==
    [b EXCEPT
        !.arrays = @ \cup { [name |-> grad, transient |-> FALSE] },
        !.required_grad_names = Put(@, input_name, grad),
        !.writes = Append(@, grad),
        !.edges = @ \cup
            { Edge("einsum", Len(b.einsums), "Output", "write",
                   Len(b.writes) + 1, "", grad) }]

\* lines 116-119: the gradient array is declared under a new name
DeclareAndWriteGradient(b, input_name) ==
    WriteGradient(b, input_name, add_backward_desc(b.arrays, input_name))

\* lines 90-125: the body of the loop, rev being what
\* reverse_einsum_wrt_input returned for input_name
EinsumStep(b, fwd, n, input_name, rev) ==
    DeclareAndWriteGradient(
        WireForwardInputs(AddEinsumNode(b, input_name, rev.einsum_str),
                          fwd, n, rev.arrays, 1),
        input_name)

\* lines 88-125: one einsum node per required gradient
RECURSIVE EinsumLoop(_, _, _, _, _, _)
EinsumLoop(b, fwd, n, eq, required_gradients, q) ==
    IF q > Len(required_gradients) THEN b
    ELSE EinsumLoop(
             EinsumStep(b, fwd, n, required_gradients[q],
                        reverse_einsum_wrt_input(eq, required_gradients[q])),
             fwd, n, eq, required_gradients, q + 1)

\* lines 127-133: the nested sdfg with its connector sets, and the result
EinsumResult(b, label) ==
    [unit |->
        [label |-> label \o "_backward",
         arrays |-> b.arrays,
         reads |-> b.reads,
         writes |-> b.writes,
         einsums |-> b.einsums,
         tasklet |-> NoTasklet,
         edges |-> b.edges,
         inputs |-> Values(b.given_grad_names)
                        \cup Keys(b.required_forward_inputs),
         outputs |-> Values(b.required_grad_names)],
     given_grad_names |-> b.given_grad_names,
     required_grad_names |-> b.required_grad_names]

\* DefaultEinsumBackward.backward up to the embedding
EinsumBackward(fwd, n, attrs, required_gradients) ==
    EinsumResult(EinsumLoop(EinsumSetup(fwd, n), fwd, n, attrs.equation,
                            required_gradients, 1),
                 attrs.label)

(***************************************************************************)
(* Generated code.  A code block is a sequence of statements on the        *)
(* handles of __state:  "new" creates the handle h, "delete" destroys and  *)
(* deletes it, "malloc"/"free" allocate and free the buffer h, "use"       *)
(* dereferences h, "call" invokes the cuDNN function h.                    *)
(***************************************************************************)
Stmt(op, h) == [op |-> op, h |-> h]

\* the statements of code that apply op, in order
StmtsOf(code, op) == SelectSeq(code, LAMBDA s : s.op = op)

\* the elements of a sequence
Range(s) == { s[i] : i \in 1..Len(s) }

\* the members of order that are in set, in the order of order
Filter(order, set) == SelectSeq(order, LAMBDA x : x \in set)

\* the decimal strings of the ids of sdfgs, states and nodes
IdStrings == <<"0", "1", "2", "3", "4", "5", "6", "7", "8", "9">>

\* str(i) of an id
RECURSIVE Decimal(_)
Decimal(i) ==
    IF i < 10 THEN IdStrings[i + 1]
    ELSE Decimal(i \div 10) \o IdStrings[(i % 10) + 1]

\* a slip: the format string has no separators, "{}{}{}{}"
format_unique_id_unseparated(name, sdfg_id, state_id, node_id) ==
    name \o Decimal(sdfg_id) \o Decimal(state_id) \o Decimal(node_id)

\* "{}_{}_{}_{}".format(name, sdfg_id, state_id, node_id), name being
\* clean_onnx_name(forward_node.name)
format_unique_id(name, sdfg_id, state_id, node_id) ==
    name \o "_" \o Decimal(sdfg_id) \o "_" \o Decimal(state_id)
         \o "_" \o Decimal(node_id)

\* the identifier of node n of the forward state: the forward sdfg is the
\* top-level sdfg 0, its only state is state 0, node n has node id n - 1
fwd_unique_id(attrs, n) == format_unique_id(attrs.label, 0, 0, n - 1)

\* unique_id = f"{fwd_unique_id}_bwd"
bwd_unique_id(fwd_id) == fwd_id \o "_bwd"

\* cudnn_implementations._cudnn_tensor_descriptor_code(desc, name, ..):
\* the code creating the descriptor name and the code destroying it
cudnn_tensor_descriptor_code(name) ==
    [init |-> <<Stmt("new", name)>>, exit |-> <<Stmt("delete", name)>>]

\* the concatenation of the init (or exit) code of the descriptors names
RECURSIVE DescriptorCode(_, _)
DescriptorCode(names, part) ==
    IF Len(names) = 0 THEN <<>>
    ELSE (IF part = "init" THEN cudnn_tensor_descriptor_code(names[1]).init
          ELSE cudnn_tensor_descriptor_code(names[1]).exit)
         \o DescriptorCode(Tail(names), part)

\* the arrays declared one after the other as gradients of the connectors
RECURSIVE DeclareGradients(_, _, _)
DeclareGradients(b, connectors, i) ==
    IF i > Len(connectors) THEN b
    ELSE LET grad == add_backward_desc(b.arrays, connectors[i])
         IN  DeclareGradients(
                 [arrays |-> b.arrays \cup { [name |-> grad, transient |-> FALSE] },
                  names |-> Put(b.names, connectors[i], grad)],
                 connectors, i + 1)

(***************************************************************************)
(* CuDNNConvBackward                                                       *)
(***************************************************************************)
\* the order in which set(required_gradients) is iterated
ConvGradOrder == <<"X", "W", "B">>

\* a slip: the finalization code forgets the convolution descriptor
ConvFinalizeLeaksConvDesc(uid, required_grads) ==
    DescriptorCode([i \in 1..Len(required_grads) |->
                        uid \o "_d" \o required_grads[i] \o "_desc"], "exit")
    \o DescriptorCode(<<uid \o "_W_desc", uid \o "_X_desc">>, "exit")
    \o DescriptorCode(<<uid \o "_dY_desc">>, "exit")
    \o <<Stmt("free", uid \o "_workspace"),
         Stmt("delete", uid \o "_workspace_size")>>

\* lines 284-383: init_code, for the gradients iterated as required_grads
ConvInitCode(uid, required_grads) ==
    DescriptorCode([i \in 1..Len(required_grads) |->
                        uid \o "_d" \o required_grads[i] \o "_desc"], "init")
    \o DescriptorCode(<<uid \o "_W_desc", uid \o "_X_desc">>, "init")
    \o DescriptorCode(<<uid \o "_dY_desc">>, "init")
    \o <<Stmt("new", uid \o "_conv_desc"),
         Stmt("use", uid \o "_conv_desc")>>
    \o <<Stmt("call", "cudnnGetConvolutionBackwardDataWorkspaceSize"),
         Stmt("use", uid \o "_W_desc"),
         Stmt("use", uid \o "_dY_desc"),
         Stmt("use", uid \o "_conv_desc"),
         Stmt("use", uid \o "_dX_desc"),
         Stmt("call", "cudnnGetConvolutionBackwardFilterWorkspaceSize"),
         Stmt("use", uid \o "_X_desc"),
         Stmt("use", uid \o "_dY_desc"),
         Stmt("use", uid \o "_conv_desc"),
         Stmt("use", uid \o "_dW_desc"),
         Stmt("new", uid \o "_workspace_size"),
         Stmt("malloc", uid \o "_workspace")>>

\* lines 285-387: finalize_code
ConvFinalizeCode(uid, required_grads) ==
    DescriptorCode([i \in 1..Len(required_grads) |->
                        uid \o "_d" \o required_grads[i] \o "_desc"], "exit")
    \o DescriptorCode(<<uid \o "_W_desc", uid \o "_X_desc">>, "exit")
    \o DescriptorCode(<<uid \o "_dY_desc">>, "exit")
    \o <<Stmt("delete", uid \o "_conv_desc")>>
    \o <<Stmt("free", uid \o "_workspace"),
         Stmt("delete", uid \o "_workspace_size")>>

\* lines 389-433: tasklet_code
ConvTaskletCode(uid, required_gradients) ==
    <<Stmt("call", "cudnnConvolutionBackwardData"),
      Stmt("use", uid \o "_W_desc"),
      Stmt("use", uid \o "_dY_desc"),
      Stmt("use", uid \o "_conv_desc"),
      Stmt("use", uid \o "_workspace"),
      Stmt("use", uid \o "_workspace_size"),
      Stmt("use", uid \o "_dX_desc"),
      Stmt("call", "cudnnConvolutionBackwardFilter"),
      Stmt("use", uid \o "_X_desc"),
      Stmt("use", uid \o "_dY_desc"),
      Stmt("use", uid \o "_conv_desc"),
      Stmt("use", uid \o "_workspace"),
      Stmt("use", uid \o "_workspace_size"),
      Stmt("use", uid \o "_dW_desc")>>
    \o (IF "B" \in Range(required_gradients)
        THEN <<Stmt("call", "cudnnConvolutionBackwardBias"),
               Stmt("use", uid \o "_dY_desc"),
               Stmt("use", uid \o "_dB_desc")>>
        ELSE <<>>)

\* lines 447-457: state_fields (the strings of lines 453 and 454 are one
\* list element, which declares both fields)
ConvStateFields(uid) ==
    { uid \o "_X_desc", uid \o "_W_desc", uid \o "_dX_desc", uid \o "_dY_desc",
      uid \o "_dB_desc", uid \o "_dW_desc", uid \o "_conv_desc",
      uid \o "_workspace", uid \o "_workspace_size" }

\* CuDNNConvBackward.backward up to the embedding
ConvBackward(fwd, n, attrs, required_gradients) ==
    LET required_grads == Filter(ConvGradOrder, Range(required_gradients))
        g == DeclareGradients([arrays |-> {}, names |-> {}], required_grads, 1)
        given == add_backward_desc(g.arrays, "Y")
        required_forward_inputs == <<"W", "X">>
        arrays == g.arrays
                    \cup { [name |-> given, transient |-> FALSE] }
                    \cup { [name |-> required_forward_inputs[i], transient |-> FALSE] :
                               i \in 1..Len(required_forward_inputs) }
        unique_id == bwd_unique_id(fwd_unique_id(attrs, n))
        nreq == Len(required_gradients)
    IN  [unit |->
            [label |-> attrs.label \o "_backward",
             arrays |-> arrays,
             reads |-> <<given>> \o required_forward_inputs,
             writes |-> [i \in 1..nreq |-> Get(g.names, required_gradients[i])],
             einsums |-> <<>>,
             tasklet |->
                [name |-> unique_id,
                 in_connectors |-> {"_dY", "_W", "_X"},
                 out_connectors |-> { "_d" \o r : r \in Range(required_gradients) },
                 code |-> ConvTaskletCode(unique_id, required_gradients),
                 code_init |-> ConvInitCode(unique_id, required_grads),
                 code_exit |-> ConvFinalizeCode(unique_id, required_grads),
                 state_fields |-> ConvStateFields(unique_id)],
             edges |->
                { Edge("read", 1, "", "tasklet", 1, "_dY", given) }
                \cup { Edge("read", i + 1, "", "tasklet", 1,
                            "_" \o required_forward_inputs[i],
                            required_forward_inputs[i]) :
                           i \in 1..Len(required_forward_inputs) }
                \cup { Edge("tasklet", 1, "_d" \o required_gradients[i],
                            "write", i, "", Get(g.names, required_gradients[i])) :
                           i \in 1..nreq },
             inputs |-> {given} \cup Range(required_forward_inputs),
             outputs |-> { Get(g.names, r) : r \in Range(required_gradients) }],
         given_grad_names |-> { [conn |-> "Y", name |-> given] },
         required_grad_names |-> g.names]

(***************************************************************************)
(* CuDNNBatchNormBackward                                                  *)
(***************************************************************************)
\* lines 549-601: init_code
BatchNormInitCode(uid) ==
    DescriptorCode(<<uid \o "_X_desc">>, "init")
    \o DescriptorCode(<<uid \o "_dX_desc">>, "init")
    \o DescriptorCode(<<uid \o "_dY_desc">>, "init")
    \o <<Stmt("new", uid \o "_dScale_desc"),
         Stmt("call", "cudnnDeriveBNTensorDescriptor"),
         Stmt("use", uid \o "_dScale_desc"),
         Stmt("use", uid \o "_X_desc")>>
    \o <<Stmt("call", "cudnnGetBatchNormalizationBackwardExWorkspaceSize"),
         Stmt("use", uid \o "_X_desc"),
         Stmt("use", uid \o "_dY_desc"),
         Stmt("use", uid \o "_dX_desc"),
         Stmt("use", uid \o "_dScale_desc"),
         Stmt("new", uid \o "_workspace_size"),
         Stmt("malloc", uid \o "_workspace")>>

\* lines 552-605: finalize_code
BatchNormFinalizeCode(uid) ==
    DescriptorCode(<<uid \o "_X_desc">>, "exit")
    \o DescriptorCode(<<uid \o "_dX_desc">>, "exit")
    \o DescriptorCode(<<uid \o "_dY_desc">>, "exit")
    \o <<Stmt("delete", uid \o "_dScale_desc")>>
    \o <<Stmt("delete", uid \o "_workspace_size"),
         Stmt("free", uid \o "_workspace")>>

\* lines 607-643: tasklet_code
BatchNormTaskletCode(uid) ==
    <<Stmt("call", "cudnnBatchNormalizationBackwardEx"),
      Stmt("use", uid \o "_X_desc"),
      Stmt("use", uid \o "_dY_desc"),
      Stmt("use", uid \o "_dX_desc"),
      Stmt("use", uid \o "_dScale_desc"),
      Stmt("use", uid \o "_workspace"),
      Stmt("use", uid \o "_workspace_size")>>

\* lines 668-679: state_fields
BatchNormStateFields(uid) ==
    { uid \o "_X_desc", uid \o "_W_desc", uid \o "_dX_desc", uid \o "_dY_desc",
      uid \o "_dB_desc", uid \o "_dW_desc", uid \o "_dScale_desc",
      uid \o "_conv_desc", uid \o "_workspace", uid \o "_workspace_size" }

\* lines 503-520: the BackwardResult, whatever required_gradients is
BatchNormResult(required_gradients) ==
    LET gx == DeclareGradients([arrays |-> {}, names |-> {}], <<"X">>, 1)
        given == add_backward_desc(gx.arrays, "Y")
        g == DeclareGradients(
                 [arrays |-> gx.arrays \cup { [name |-> given, transient |-> FALSE] },
                  names |-> gx.names],
                 <<"scale", "B">>, 1)
    IN  [arrays |-> g.arrays,
         given_grad_names |-> { [conn |-> "Y", name |-> given] },
         required_grad_names |-> g.names]

\* CuDNNBatchNormBackward.backward: the nested sdfg as it is when it is
\* embedded (line 763), and the BackwardResult
BatchNormBackward(fwd, n, attrs, required_gradients) ==
    LET res == BatchNormResult(required_gradients)
        given == Get(res.given_grad_names, "Y")
        forward_arrays == <<"X", "scale", "saved_mean", "saved_var">>
        reserved == <<"reserved_ptr", "reserved_size">>
        unique_id == bwd_unique_id(fwd_unique_id(attrs, n))
        read_order == <<given, "X", "saved_mean", "scale", "saved_var">> \o reserved
        write_conns == <<"_dX", "_dScale", "_dBias">>
        write_order == <<Get(res.required_grad_names, "X"),
                         Get(res.required_grad_names, "scale"),
                         Get(res.required_grad_names, "B")>>
    IN  [unit |->
            [label |-> attrs.label \o "_backward",
             arrays |-> res.arrays
                 \cup { [name |-> forward_arrays[i], transient |-> FALSE] :
                            i \in 1..Len(forward_arrays) }
                 \cup { [name |-> reserved[i], transient |-> FALSE] :
                            i \in 1..Len(reserved) },
             reads |-> read_order,
             writes |-> write_order,
             einsums |-> <<>>,
             tasklet |->
                [name |-> unique_id,
                 in_connectors |-> {"_X", "_dY", "_scale", "_saved_mean",
                                    "_saved_var", "_reserved_ptr", "_reserved_size"},
                 out_connectors |-> {"_dX", "_dScale", "_dBias"},
                 code |-> BatchNormTaskletCode(unique_id),
                 code_init |-> BatchNormInitCode(unique_id),
                 code_exit |-> BatchNormFinalizeCode(unique_id),
                 state_fields |-> BatchNormStateFields(unique_id)],
             edges |->
                { Edge("read", 1, "", "tasklet", 1, "_dY", given) }
                \cup { Edge("read", i, "", "tasklet", 1, "_" \o read_order[i],
                            read_order[i]) : i \in 2..Len(read_order) }
                \cup { Edge("tasklet", 1, write_conns[i], "write", i, "",
                            write_order[i]) : i \in 1..Len(write_order) },
             inputs |-> {"X", given, "scale", "saved_mean", "saved_var",
                         "reserved_ptr", "reserved_size"},
             outputs |-> { Get(res.required_grad_names, a) :
                               a \in {"X", "scale", "B"} }],
         given_grad_names |-> res.given_grad_names,
         required_grad_names |-> res.required_grad_names]

\* a slip: the hook is appended twice
RegisterHookTwice(hooks, n) == Append(Append(hooks, n), n)

\* line 726: completion_hooks.append(expand), expand closing over node n
RegisterHook(hooks, n) == Append(hooks, n)

\* Node.add_out_connector(name): the connector is added unless the node has
\* a connector of that name already; the returned flag is what is asserted
CanAddOutConnector(fwd, n, name) ==
    /\ [node |-> n, conn |-> name] \notin fwd.in_connectors
    /\ [node |-> n, conn |-> name] \notin fwd.out_connectors

AddOutConnector(fwd, n, name) ==
    [fwd EXCEPT !.out_connectors = @ \cup { [node |-> n, conn |-> name] }]

\* SDFG.add_scalar(name, .., find_new_name=True): a scalar declared under
\* a name that is new to the sdfg
AddScalar(fwd, scalar) ==
    [fwd EXCEPT !.arrays = @ \cup { [name |-> scalar, transient |-> FALSE] }]

\* lines 729-750 when both assertions pass: the two connectors, the two
\* scalars, and an edge from each connector to (an access node of) its scalar
ForwardReserved(fwd, n) ==
    LET f1 == AddOutConnector(fwd, n, "reserved_ptr")
        f2 == AddOutConnector(f1, n, "reserved_size")
        reserved_ptr_name == NewName(Names(f2.arrays), "reserved_ptr")
        f3 == AddScalar(f2, reserved_ptr_name)
        reserved_size_name == NewName(Names(f3.arrays), "reserved_size")
        f4 == AddScalar(f3, reserved_size_name)
    IN  [f4 EXCEPT
            !.edges = @ \cup
                { [node |-> n, conn |-> "reserved_ptr", dir |-> "out",
                   data |-> reserved_ptr_name],
                  [node |-> n, conn |-> "reserved_size", dir |-> "out",
                   data |-> reserved_size_name] }]

\* butils.connect_output_from_forward(forward_node, node, context, name):
\* the forward array written from connector name feeds the input connector
\* name of the embedded unit
connect_output_from_forward(bwd, fwd, n, unit, name) ==
    LET e == CHOOSE e \in fwd.edges : e.node = n /\ e.conn = name /\ e.dir = "out"
    IN  [bwd EXCEPT
            !.edges = @ \cup { [data |-> e.data, unit |-> unit, conn |-> name] }]

\* context.backward_state.add_nested_sdfg(nsdfg, None, inputs, outputs)
add_nested_sdfg(bwd, unit) ==
    [bwd EXCEPT !.units = Append(@, unit)]

\* a slip: the expansion is put in place of the node without its edges
ExpandForwardNodeUnwired(fwd, n) ==
    LET move(p) == IF p.node = n THEN [p EXCEPT !.node = -n] ELSE p
    IN  [fwd EXCEPT
            !.nodes = (@ \ {n}) \cup {-n},
            !.in_connectors = { move(p) : p \in @ },
            !.out_connectors = { move(p) : p \in @ },
            !.edges = { p \in @ : p.node # n }]

\* lines 704-724, Expansion.apply_to(forward_sdfg, _match_node=forward_node):
\* the library node n is replaced by its expansion, the node -n, which takes
\* over the connectors and the edges of n
ExpandForwardNode(fwd, n) ==
    LET move(p) == IF p.node = n THEN [p EXCEPT !.node = -n] ELSE p
    IN  [fwd EXCEPT
            !.nodes = (@ \ {n}) \cup {-n},
            !.in_connectors = { move(p) : p \in @ },
            !.out_connectors = { move(p) : p \in @ },
            !.edges = { move(p) : p \in @ }]

(***************************************************************************)
(* butils.backward_program_for_node: the program is lowered to a nested    *)
(* sdfg whose arrays are the program's parameters, embedded in the         *)
(* backward state; a parameter <name>_grad is the gradient of connector    *)
(* <name> of the forward node.                                             *)
(***************************************************************************)
backward_program_for_node(label, read_params, written_params, given, required) ==
    [unit |->
        [label |-> label \o "_backward",
         arrays |-> { [name |-> read_params[i], transient |-> FALSE] :
                          i \in 1..Len(read_params) }
                    \cup { [name |-> written_params[i], transient |-> FALSE] :
                               i \in 1..Len(written_params) },
         reads |-> read_params,
         writes |-> written_params,
         einsums |-> <<>>,
         tasklet |-> NoTasklet,
         edges |-> {},
         inputs |-> Range(read_params),
         outputs |-> Range(written_params)],
     given_grad_names |-> given,
     required_grad_names |-> required]

\* lines 168-169 and 208-209: the program has the parameters output,
\* output_grad and input_grad
SoftmaxFamilyBackward(attrs) ==
    backward_program_for_node(attrs.label, <<"output", "output_grad">>,
                              <<"input_grad">>,
                              { [conn |-> "output", name |-> "output_grad"] },
                              { [conn |-> "input", name |-> "input_grad"] })

\* line 809: the program has the parameters X_grad and Y_grad
GlobalAveragePoolBackward(attrs) ==
    backward_program_for_node(attrs.label, <<"Y_grad">>, <<"X_grad">>,
                              { [conn |-> "Y", name |-> "Y_grad"] },
                              { [conn |-> "X", name |-> "X_grad"] })

(***************************************************************************)
(* The reversal, called once and then on its own result.                   *)
(***************************************************************************)
DriverIdle ==
    /\ pc = "idle"
    /\ visits = 0
    /\ forward_nodes = <<>>
    /\ forward = <<>>
    /\ backward_state = <<>>
    /\ completion_hooks = <<>>
    /\ hooks_run = <<>>
    /\ last = <<>>
    /\ before = <<>>

RevInit ==
    /\ DriverIdle
    /\ ExtIdle
    /\ operands \in OperandLists
    /\ out_expr \in OperandExprs
    /\ equation = Join(operands, <<",">>) \o <<"-", ">">> \o out_expr
    /\ target \in 0..(Len(operands) - 1)
    /\ rev_pc = "start"
    /\ rev1 = NoResult
    /\ rev2 = NoResult

ReverseOnce ==
    /\ rev_pc = "start"
    /\ rev1' = reverse_einsum_wrt_input(equation, InputsConn(target))
    /\ rev_pc' = "once"
    /\ UNCHANGED <<operands, out_expr, equation, target, rev2>>
    /\ UNCHANGED driver_vars
    /\ UNCHANGED ext_vars

ReverseAgain ==
    /\ rev_pc = "once"
    /\ rev2' = reverse_einsum_wrt_input(rev1.einsum_str, InputsConn(0))
    /\ rev_pc' = "twice"
    /\ UNCHANGED <<operands, out_expr, equation, target, rev1>>
    /\ UNCHANGED driver_vars
    /\ UNCHANGED ext_vars

RevNext == ReverseOnce \/ ReverseAgain

SpecRev == RevInit /\ [][RevNext]_vars

(***************************************************************************)
(* Applicability of the cuDNN implementations.                             *)
(***************************************************************************)
\* cudnn_implementations.CudnnConvolution.forward_can_be_applied: the pads
\* (top, left, bottom, right) are symmetric
CudnnConvolution_forward_can_be_applied(attrs) ==
    /\ attrs.pads[1] = attrs.pads[3]
    /\ attrs.pads[2] = attrs.pads[4]

\* CuDNNConvBackward.backward_can_be_applied
Conv_backward_can_be_applied(attrs) ==
    CudnnConvolution_forward_can_be_applied(attrs)

\* CudnnBatchNormalizationTraining.forward_can_be_applied
CudnnBatchNormalizationTraining_forward_can_be_applied(attrs) == TRUE

\* CuDNNBatchNormBackward.backward_can_be_applied
BatchNorm_backward_can_be_applied(attrs) ==
    CudnnBatchNormalizationTraining_forward_can_be_applied(attrs)

\* BackwardImplementation.backward_can_be_applied, which DefaultSoftmaxBackward
\* and DefaultLogSoftmaxBackward inherit: every node is accepted
Default_backward_can_be_applied(attrs) == TRUE

\* a slip: the answer is remembered across calls, only the first call on a
\* forward state looks at the shape
GlobalAveragePool_applicable_once(fwd, n) ==
    /\ probes = 0
    /\ Len(desc_shape(fwd, forward_in_desc_with_name(fwd, n, "X"))) = 4

\* PureGlobalAveragePoolingBackward.backward_can_be_applied:
\* len(utils.in_desc_with_name(node, state, sdfg, "X").shape) == 4
GlobalAveragePool_backward_can_be_applied(fwd, n) ==
    Len(desc_shape(fwd, forward_in_desc_with_name(fwd, n, "X"))) = 4

\* backward_can_be_applied(node, state, sdfg) of the implementation
\* registered for the operator of node n
backward_can_be_applied(fwd, n, attrs) ==
    CASE attrs.op = "Einsum" -> Einsum_backward_can_be_applied(attrs)
      [] attrs.op = "Conv" -> Conv_backward_can_be_applied(attrs)
      [] attrs.op = "BatchNormalization" -> BatchNorm_backward_can_be_applied(attrs)
      [] attrs.op \in {"Softmax", "LogSoftmax"} ->
             Default_backward_can_be_applied(attrs)
      [] attrs.op = "GlobalAveragePool" ->
             GlobalAveragePool_backward_can_be_applied(fwd, n)

(***************************************************************************)
(* The backward pass: backward() is called for forward nodes one after the *)
(* other, then the completion hooks are run in the order of the list.      *)
(***************************************************************************)
\* the pads a forward Conv node may carry
ForwardPads == { <<1, 1, 1, 1>>, <<0, 1, 1, 1>> }

\* the lists of distinct connectors of a set, in every order
Orderings(conns) ==
    { s \in UNION { [1..k -> conns] : k \in 1..Cardinality(conns) } :
          \A a, b \in 1..Len(s) : a # b => s[a] # s[b] }

\* the non-empty sublists of a list
Sublists(order) ==
    { Filter(order, S) : S \in (SUBSET Range(order)) \ {{}} }

NoCall ==
    [node |-> 0, op |-> "", required_gradients |-> <<>>, raised |-> FALSE,
     given_grad_names |-> {}, required_grad_names |-> {}, unit |-> 0]

\* the record of a backward() call on node n
Called(n, op, required_gradients, raised, res, unit) ==
    [node |-> n, op |-> op, required_gradients |-> required_gradients,
     raised |-> raised,
     given_grad_names |-> res.given_grad_names,
     required_grad_names |-> res.required_grad_names,
     unit |-> unit]

\* what outlives a call, as it is now
Snapshot ==
    [forward |-> forward, backward_state |-> backward_state,
     completion_hooks |-> completion_hooks, hooks_run |-> hooks_run]

RevIdle ==
    /\ operands = <<>>
    /\ out_expr = <<>>
    /\ equation = <<>>
    /\ target = 0
    /\ rev_pc = "idle"
    /\ rev1 = NoResult
    /\ rev2 = NoResult

Init ==
    /\ RevIdle
    /\ ExtIdle
    /\ pc = "visit"
    /\ visits = 0
    /\ \E eq \in ForwardEquations, pads \in ForwardPads :
           forward_nodes =
               [n \in Nodes |->
                   [op |-> NodeOps[n], label |-> NodeLabels[n],
                    equation |-> IF NodeOps[n] = "Einsum" THEN eq ELSE <<>>,
                    pads |-> IF NodeOps[n] = "Conv" THEN pads ELSE <<>>,
                    shape |-> NodeShapes[n]]]
    /\ forward = ForwardGraph(forward_nodes)
    /\ backward_state = [units |-> <<>>, edges |-> {}]
    /\ completion_hooks = <<>>
    /\ hooks_run = <<>>
    /\ last = NoCall
    /\ before = [forward |-> forward, backward_state |-> backward_state,
                 completion_hooks |-> completion_hooks, hooks_run |-> hooks_run]

\* DefaultEinsumBackward.backward on an applicable Einsum node
SynthEinsum ==
    \E n \in Nodes :
        /\ pc = "visit"
        /\ visits < MaxVisits
        /\ n \in forward.nodes
        /\ forward_nodes[n].op = "Einsum"
        /\ Einsum_backward_can_be_applied(forward_nodes[n])
        /\ \E required_gradients \in Orderings(InConnectorsOf(forward_nodes[n])) :
               LET r == EinsumBackward(forward, n, forward_nodes[n],
                                       required_gradients)
               IN  /\ backward_state' = add_nested_sdfg(backward_state, r.unit)
                   /\ last' = Called(n, "Einsum", required_gradients, FALSE, r,
                                     Len(backward_state.units) + 1)
        /\ before' = Snapshot
        /\ visits' = visits + 1
        /\ UNCHANGED <<pc, forward_nodes, forward, completion_hooks, hooks_run>>
        /\ UNCHANGED rev_vars
        /\ UNCHANGED ext_vars

\* a slip: the Conv backward also queues a hook for its node
SynthConvRegistersHook ==
    \E n \in Nodes :
        /\ pc = "visit"
        /\ visits < MaxVisits
        /\ n \in forward.nodes
        /\ forward_nodes[n].op = "Conv"
        /\ Conv_backward_can_be_applied(forward_nodes[n])
        /\ \E required_gradients \in Sublists(ConvGradOrder) :
               LET r == ConvBackward(forward, n, forward_nodes[n],
                                     required_gradients)
               IN  /\ backward_state' = add_nested_sdfg(backward_state, r.unit)
                   /\ last' = Called(n, "Conv", required_gradients, FALSE, r,
                                     Len(backward_state.units) + 1)
        /\ completion_hooks' = RegisterHook(completion_hooks, n)
        /\ before' = Snapshot
        /\ visits' = visits + 1
        /\ UNCHANGED <<pc, forward_nodes, forward, hooks_run>>
        /\ UNCHANGED rev_vars
        /\ UNCHANGED ext_vars

\* CuDNNConvBackward.backward on an applicable Conv node
SynthConv ==
    \E n \in Nodes :
        /\ pc = "visit"
        /\ visits < MaxVisits
        /\ n \in forward.nodes
        /\ forward_nodes[n].op = "Conv"
        /\ Conv_backward_can_be_applied(forward_nodes[n])
        /\ \E required_gradients \in Sublists(ConvGradOrder) :
               LET r == ConvBackward(forward, n, forward_nodes[n],
                                     required_gradients)
               IN  /\ backward_state' = add_nested_sdfg(backward_state, r.unit)
                   /\ last' = Called(n, "Conv", required_gradients, FALSE, r,
                                     Len(backward_state.units) + 1)
        /\ before' = Snapshot
        /\ visits' = visits + 1
        /\ UNCHANGED <<pc, forward_nodes, forward, completion_hooks, hooks_run>>
        /\ UNCHANGED rev_vars
        /\ UNCHANGED ext_vars

\* CuDNNBatchNormBackward.backward on an applicable BatchNormalization node:
\* the hook is appended (line 726) before the connectors are asserted to be
\* new (lines 729-730); a failed assertion ends the pass
SynthBatchNorm ==
    \E n \in Nodes :
        /\ pc = "visit"
        /\ visits < MaxVisits
        /\ n \in forward.nodes
        /\ forward_nodes[n].op = "BatchNormalization"
        /\ BatchNorm_backward_can_be_applied(forward_nodes[n])
        /\ \E required_gradients \in Sublists(<<"X", "scale", "B">>) :
               LET r == BatchNormBackward(forward, n, forward_nodes[n],
                                          required_gradients)
                   unit == Len(backward_state.units) + 1
                   f1 == AddOutConnector(forward, n, "reserved_ptr")
                   fwd == ForwardReserved(forward, n)
                   b0 == add_nested_sdfg(backward_state, r.unit)
                   b1 == connect_output_from_forward(b0, fwd, n, unit, "saved_mean")
                   b2 == connect_output_from_forward(b1, fwd, n, unit, "saved_var")
                   b3 == connect_output_from_forward(b2, fwd, n, unit, "reserved_ptr")
                   b4 == connect_output_from_forward(b3, fwd, n, unit, "reserved_size")
               IN  /\ completion_hooks' = RegisterHook(completion_hooks, n)
                   /\ IF ~CanAddOutConnector(forward, n, "reserved_ptr")
                      THEN /\ forward' = forward
                           /\ backward_state' = backward_state
                           /\ pc' = "aborted"
                           /\ last' = Called(n, "BatchNormalization",
                                             required_gradients, TRUE, r, 0)
                      ELSE IF ~CanAddOutConnector(f1, n, "reserved_size")
                      THEN /\ forward' = f1
                           /\ backward_state' = backward_state
                           /\ pc' = "aborted"
                           /\ last' = Called(n, "BatchNormalization",
                                             required_gradients, TRUE, r, 0)
                      ELSE /\ forward' = fwd
                           /\ backward_state' = b4
                           /\ pc' = pc
                           /\ last' = Called(n, "BatchNormalization",
                                             required_gradients, FALSE, r, unit)
        /\ before' = Snapshot
        /\ visits' = visits + 1
        /\ UNCHANGED <<forward_nodes, hooks_run>>
        /\ UNCHANGED rev_vars
        /\ UNCHANGED ext_vars

\* DefaultSoftmaxBackward.backward and DefaultLogSoftmaxBackward.backward:
\* the lowered program is embedded and the forward output is connected to it
SynthSoftmaxFamily(op) ==
    \E n \in Nodes :
        /\ pc = "visit"
        /\ visits < MaxVisits
        /\ n \in forward.nodes
        /\ forward_nodes[n].op = op
        /\ Default_backward_can_be_applied(forward_nodes[n])
        /\ LET r == SoftmaxFamilyBackward(forward_nodes[n])
               unit == Len(backward_state.units) + 1
           IN  /\ backward_state' =
                      connect_output_from_forward(
                          add_nested_sdfg(backward_state, r.unit),
                          forward, n, unit, "output")
               /\ last' = Called(n, op, <<"input">>, FALSE, r, unit)
        /\ before' = Snapshot
        /\ visits' = visits + 1
        /\ UNCHANGED <<pc, forward_nodes, forward, completion_hooks, hooks_run>>
        /\ UNCHANGED rev_vars
        /\ UNCHANGED ext_vars

SynthSoftmax == SynthSoftmaxFamily("Softmax")

SynthLogSoftmax == SynthSoftmaxFamily("LogSoftmax")

\* PureGlobalAveragePoolingBackward.backward on an applicable node
SynthGlobalAveragePool ==
    \E n \in Nodes :
        /\ pc = "visit"
        /\ visits < MaxVisits
        /\ n \in forward.nodes
        /\ forward_nodes[n].op = "GlobalAveragePool"
        /\ GlobalAveragePool_backward_can_be_applied(forward, n)
        /\ LET r == GlobalAveragePoolBackward(forward_nodes[n])
           IN  /\ backward_state' = add_nested_sdfg(backward_state, r.unit)
               /\ last' = Called(n, "GlobalAveragePool", <<"X">>, FALSE, r,
                                 Len(backward_state.units) + 1)
        /\ before' = Snapshot
        /\ visits' = visits + 1
        /\ UNCHANGED <<pc, forward_nodes, forward, completion_hooks, hooks_run>>
        /\ UNCHANGED rev_vars
        /\ UNCHANGED ext_vars

\* every node has been visited: the pass turns to the completion hooks
StartHooks ==
    /\ pc = "visit"
    /\ pc' = "hooks"
    /\ UNCHANGED <<visits, forward_nodes, forward, backward_state,
                   completion_hooks, hooks_run, last, before>>
    /\ UNCHANGED rev_vars
    /\ UNCHANGED ext_vars

\* the next completion hook is called: expand(_) of the node it closes over
RunHook ==
    /\ pc = "hooks"
    /\ Len(hooks_run) < Len(completion_hooks)
    /\ LET h == Len(hooks_run) + 1
           n == completion_hooks[h]
       IN  /\ hooks_run' = Append(hooks_run, h)
           /\ IF n \in forward.nodes
              THEN /\ forward' = ExpandForwardNode(forward, n)
                   /\ pc' = pc
              ELSE /\ forward' = forward
                   /\ pc' = "aborted"
    /\ before' = Snapshot
    /\ UNCHANGED <<visits, forward_nodes, backward_state, completion_hooks, last>>
    /\ UNCHANGED rev_vars
    /\ UNCHANGED ext_vars

\* no hook is left
Finish ==
    /\ pc = "hooks"
    /\ Len(hooks_run) = Len(completion_hooks)
    /\ pc' = "done"
    /\ UNCHANGED <<visits, forward_nodes, forward, backward_state,
                   completion_hooks, hooks_run, last, before>>
    /\ UNCHANGED rev_vars
    /\ UNCHANGED ext_vars

\* backward_can_be_applied is called on forward node n: it returns a value
\* and assigns nothing
Probe ==
    \E n \in Nodes :
        /\ pc = "visit"
        /\ probes < MaxProbes
        /\ n \in forward.nodes
        /\ probe_prev' = probe_last
        /\ probe_last' =
               [node |-> n,
                seen |-> [forward |-> forward, forward_nodes |-> forward_nodes,
                          backward_state |-> backward_state,
                          completion_hooks |-> completion_hooks],
                value |-> backward_can_be_applied(forward, n, forward_nodes[n])]
        /\ probes' = probes + 1
        /\ UNCHANGED driver_vars
        /\ UNCHANGED rev_vars
        /\ UNCHANGED <<id_vars, prog_vars>>

\* the applicability checks alone, any number of times in any order
SpecApply == Init /\ [][Probe]_vars

Next ==
    \/ SynthEinsum
    \/ SynthConv
    \/ SynthBatchNorm
    \/ SynthSoftmax
    \/ SynthLogSoftmax
    \/ SynthGlobalAveragePool
    \/ StartHooks
    \/ RunHook
    \/ Finish

Spec == Init /\ [][Next]_vars

(***************************************************************************)
(* The identifiers of two forward nodes and the handles named after them.  *)
(***************************************************************************)
\* the names clean_onnx_name(forward_node.name) of the nodes
NodeNames == {"conv", "conv1", "conv_1", "conv_1_1"}

\* the ids tried: the one-digit ids up to MaxId, and a two-digit id
IdValues == 0..MaxId \cup {11}

\* a forward node as the format sees it
NodeDescs ==
    [name : NodeNames, sdfg_id : IdValues, state_id : IdValues,
     node_id : IdValues]

\* the handle names a tasklet named unique_id declares (lines 447-457 and
\* 668-679)
HandleNames(unique_id) ==
    ConvStateFields(unique_id) \cup BatchNormStateFields(unique_id)

IdInit ==
    /\ RevIdle
    /\ DriverIdle
    /\ ProbeIdle
    /\ ProgIdle
    /\ id_pc = "start"
    /\ id_nodes \in [1..2 -> NodeDescs]
    /\ id_names = <<>>

\* lines 542-545: fwd_unique_id of each node
NameForward ==
    /\ id_pc = "start"
    /\ id_names' =
           [i \in 1..2 |->
               [fwd |-> format_unique_id(id_nodes[i].name, id_nodes[i].sdfg_id,
                                         id_nodes[i].state_id, id_nodes[i].node_id),
                bwd |-> "", handles |-> {}]]
    /\ id_pc' = "forward"
    /\ UNCHANGED id_nodes
    /\ UNCHANGED <<rev_vars, driver_vars, probe_vars, prog_vars>>

\* lines 279-282 and 547: unique_id of each node, and the handles named
\* after it
NameBackward ==
    /\ id_pc = "forward"
    /\ id_names' =
           [i \in 1..2 |->
               [id_names[i] EXCEPT
                   !.bwd = bwd_unique_id(id_names[i].fwd),
                   !.handles = HandleNames(bwd_unique_id(id_names[i].fwd))]]
    /\ id_pc' = "backward"
    /\ UNCHANGED id_nodes
    /\ UNCHANGED <<rev_vars, driver_vars, probe_vars, prog_vars>>

IdNext == NameForward \/ NameBackward

SpecId == IdInit /\ [][IdNext]_vars

(***************************************************************************)
(* Tensors.  A tensor is a shape and a value per index tuple (0-based);    *)
(* the values are integers, which stand for the reals: rounding is not     *)
(* modelled.                                                               *)
(***************************************************************************)
\* the index tuples of an array of that shape
RECURSIVE Indices(_)
Indices(shape) ==
    IF Len(shape) = 0 THEN { <<>> }
    ELSE { <<i>> \o p : i \in 0..(shape[1] - 1), p \in Indices(Tail(shape)) }

\* the tensors of that shape with elements in values
TensorsOf(shape, values) ==
    { [shape |-> shape, data |-> d] : d \in [Indices(shape) -> values] }

\* dace.define_local(shape, dtype): an array that has not been written; its
\* elements are some value no input has
define_local(shape) ==
    [shape |-> shape, data |-> [p \in Indices(shape) |-> -99]]

\* numpy broadcasting: the index into an array of that shape for index p of
\* the result
Broadcast(p, shape) ==
    [i \in 1..Len(shape) |-> IF shape[i] = 1 THEN 0 ELSE p[i]]

\* numpy broadcasting: the shape of the result of an elementwise operation
BroadcastShape(A, B) ==
    [i \in 1..Len(A.shape) |->
        IF A.shape[i] >= B.shape[i] THEN A.shape[i] ELSE B.shape[i]]

\* donnx.ONNXMul(A, B, C), and the numpy expression A * B: what is written
ONNXMul(A, B) ==
    [shape |-> BroadcastShape(A, B),
     data |-> [p \in Indices(BroadcastShape(A, B)) |->
                  A.data[Broadcast(p, A.shape)] * B.data[Broadcast(p, B.shape)]]]

\* donnx.ONNXSub(A, B, C), and the numpy expression A - B
ONNXSub(A, B) ==
    [shape |-> BroadcastShape(A, B),
     data |-> [p \in Indices(BroadcastShape(A, B)) |->
                  A.data[Broadcast(p, A.shape)] - B.data[Broadcast(p, B.shape)]]]

\* donnx.ONNXExp(input, output); base 2 stands for e, so that the values
\* stay integers
ONNXExp(A) == [shape |-> A.shape, data |-> [p \in Indices(A.shape) |-> 2 ^ A.data[p]]]

\* the position (1-based) of axis dim, which may count from the end
AxisOf(dim, shape) == (IF dim < 0 THEN dim + Len(shape) ELSE dim) + 1

\* the sum of the k first elements of T along axis ax through index p
RECURSIVE SumAlong(_, _, _, _)
SumAlong(T, p, ax, k) ==
    IF k = 0 THEN 0
    ELSE T.data[[p EXCEPT ![ax] = k - 1]] + SumAlong(T, p, ax, k - 1)

\* sums_shape = list(output_shape); sums_shape[dim] = 1
sums_shape(output_shape, dim) ==
    [output_shape EXCEPT ![AxisOf(dim, output_shape)] = 1]

\* donnx.ONNXReduceSum(data, reduced, keepdims=1, axes=[dim])
ONNXReduceSum(data, dim) ==
    [shape |-> sums_shape(data.shape, dim),
     data |-> [p \in Indices(sums_shape(data.shape, dim)) |->
                  SumAlong(data, p, AxisOf(dim, data.shape),
                           data.shape[AxisOf(dim, data.shape)])]]

(***************************************************************************)
(* The backward programs of Softmax, LogSoftmax and GlobalAveragePool, run *)
(* statement by statement.                                                 *)
(***************************************************************************)
\* the shape of the output of the forward Softmax or LogSoftmax node
OutputShape == <<2, 2>>

\* forward_node.axis: the last axis (the default) or the first
Axes == {-1, 0}

\* the values of the elements of output and of output_grad
OutputValues == 0..MaxVal
GradValues == -1..MaxVal

\* line 158: donnx.ONNXMul(A=output, B=output_grad, C=prod)
softmax_prod(t) == [t EXCEPT !.prod = ONNXMul(t.output, t.output_grad)]

\* lines 159-162: donnx.ONNXReduceSum(data=prod, reduced=sums, ..)
softmax_sums(t, dim) == [t EXCEPT !.sums = ONNXReduceSum(t.prod, dim)]

\* line 164: donnx.ONNXMul(A=output, B=sums, C=input_grad)
softmax_scale(t) == [t EXCEPT !.input_grad = ONNXMul(t.output, t.sums)]

\* a slip: the operands of the subtraction are swapped
softmax_subtract_swapped(t) ==
    [t EXCEPT !.input_grad = ONNXSub(t.input_grad, t.prod)]

\* line 166: input_grad[:] = prod - input_grad
softmax_subtract(t) ==
    [t EXCEPT !.input_grad = ONNXSub(t.prod, t.input_grad)]

\* the locals of softmax_backward (lines 156-157) before anything is written
SoftmaxLocals(output, output_grad, dim) ==
    [output |-> output, output_grad |-> output_grad,
     input_grad |-> define_local(OutputShape),
     prod |-> define_local(OutputShape),
     sums |-> define_local(sums_shape(OutputShape, dim))]

\* the arguments of softmax_backward
SoftmaxInit ==
    /\ prog_op = "Softmax"
    /\ prog_pc = 0
    /\ \E dim \in Axes, output \in TensorsOf(OutputShape, OutputValues),
          output_grad \in TensorsOf(OutputShape, GradValues) :
           /\ prog_args = [dim |-> dim, output |-> output,
                            output_grad |-> output_grad]
           /\ tensors = SoftmaxLocals(output, output_grad, dim)
    /\ applicable = FALSE
    /\ writes = <<>>

\* statement k + 1 of softmax_backward is executed and leaves the tensors
\* as in after
SoftmaxStatement(k, after) ==
    /\ prog_op = "Softmax"
    /\ prog_pc = k
    /\ tensors' = after
    /\ prog_pc' = k + 1
    /\ UNCHANGED <<prog_op, prog_args, applicable, writes>>
    /\ UNCHANGED <<rev_vars, driver_vars, probe_vars, id_vars>>

SoftmaxProd == SoftmaxStatement(0, softmax_prod(tensors))

SoftmaxSums == SoftmaxStatement(1, softmax_sums(tensors, prog_args.dim))

SoftmaxScale == SoftmaxStatement(2, softmax_scale(tensors))

SoftmaxSubtract == SoftmaxStatement(3, softmax_subtract(tensors))

\* the locals of logsoftmax_backward (lines 196-199) before anything is
\* written
LogSoftmaxLocals(output, output_grad, dim) ==
    [output |-> output, output_grad |-> output_grad,
     input_grad |-> define_local(OutputShape),
     exp_output |-> define_local(OutputShape),
     grad_output_sum |-> define_local(sums_shape(OutputShape, dim))]

\* a slip: the exponential is also written over the forward output
logsoftmax_exp_in_place(t) ==
    [t EXCEPT !.exp_output = ONNXExp(t.output), !.output = ONNXExp(t.output)]

\* line 197: donnx.ONNXExp(input=output, output=exp_output)
logsoftmax_exp(t) == [t EXCEPT !.exp_output = ONNXExp(t.output)]

\* lines 200-203: donnx.ONNXReduceSum(data=output_grad,
\* reduced=grad_output_sum, ..)
logsoftmax_sum(t, dim) ==
    [t EXCEPT !.grad_output_sum = ONNXReduceSum(t.output_grad, dim)]

\* line 205: exp_output[:] = exp_output * grad_output_sum
logsoftmax_scale(t) ==
    [t EXCEPT !.exp_output = ONNXMul(t.exp_output, t.grad_output_sum)]

\* line 206: donnx.ONNXSub(A=output_grad, B=exp_output, C=input_grad)
logsoftmax_subtract(t) ==
    [t EXCEPT !.input_grad = ONNXSub(t.output_grad, t.exp_output)]

\* the arguments of logsoftmax_backward
LogSoftmaxInit ==
    /\ prog_op = "LogSoftmax"
    /\ prog_pc = 0
    /\ \E dim \in Axes, output \in TensorsOf(OutputShape, OutputValues),
          output_grad \in TensorsOf(OutputShape, GradValues) :
           /\ prog_args = [dim |-> dim, output |-> output,
                            output_grad |-> output_grad]
           /\ tensors = LogSoftmaxLocals(output, output_grad, dim)
    /\ applicable = FALSE
    /\ writes = <<>>

\* statement k + 1 of logsoftmax_backward is executed and leaves the
\* tensors as in after
LogSoftmaxStatement(k, after) ==
    /\ prog_op = "LogSoftmax"
    /\ prog_pc = k
    /\ tensors' = after
    /\ prog_pc' = k + 1
    /\ UNCHANGED <<prog_op, prog_args, applicable, writes>>
    /\ UNCHANGED <<rev_vars, driver_vars, probe_vars, id_vars>>

LogSoftmaxExp == LogSoftmaxStatement(0, logsoftmax_exp(tensors))

LogSoftmaxSum == LogSoftmaxStatement(1, logsoftmax_sum(tensors, prog_args.dim))

LogSoftmaxScale == LogSoftmaxStatement(2, logsoftmax_scale(tensors))

LogSoftmaxSubtract == LogSoftmaxStatement(3, logsoftmax_subtract(tensors))

\* the shapes of the operand X of a forward GlobalAveragePool node
PoolRanks == {3, 4, 5}
PoolExtents == {1, 2}
PoolShapes == UNION { [1..r -> PoolExtents] : r \in PoolRanks }

\* the shape of Y and of its gradient: the extents after the second are 1
PoolOutputShape(shape) ==
    [i \in 1..Len(shape) |-> IF i <= 2 THEN shape[i] ELSE 1]

\* a forward state that holds the pooling node, numbered 1, and its X
PoolForward(shape) ==
    [arrays |-> { [name |-> "X", transient |-> FALSE] },
     shapes |-> { [name |-> "X", shape |-> shape] },
     nodes |-> {1},
     in_connectors |-> { [node |-> 1, conn |-> "X"] },
     out_connectors |-> {},
     edges |-> { [node |-> 1, conn |-> "X", dir |-> "in", data |-> "X"] }]

PoolInit ==
    /\ prog_op = "GlobalAveragePool"
    /\ prog_pc = 0
    /\ \E shape \in PoolShapes :
           \E Y_grad \in TensorsOf(PoolOutputShape(shape), GradValues) :
               /\ prog_args = [shape |-> shape, Y_grad |-> Y_grad]
               /\ tensors = [Y_grad |-> Y_grad, X_grad |-> define_local(shape)]
    /\ applicable = FALSE
    /\ writes = <<>>

\* line 800: inv = 1.0 / (H * W), kept as a fraction
pool_inv(H, W) == [num |-> 1, den |-> H * W]

\* a slip: the gradient is copied, not scaled
pool_tasklet_unscaled(y_grad, inv) == [num |-> y_grad, den |-> 1]

\* line 807: x_grad = y_grad * dtype(inv), dtype being a floating-point type
pool_tasklet(y_grad, inv) == [num |-> y_grad * inv.num, den |-> inv.den]

\* line 803: the points of dace.map[0:N, 0:C, 0:H, 0:W]
pool_map(N, C, H, W) == Indices(<<N, C, H, W>>)

\* line 805: y_grad << Y_grad[n, c]
pool_read(Y_grad, p) == Y_grad.data[<<p[1], p[2], 0, 0>>]

\* line 806: x_grad >> X_grad[n, c, h, w], the element that point p writes
pool_write(p) == <<p[1], p[2], p[3], p[4]>>

\* lines 785-788: the strategy is asked whether it applies
PoolCheck ==
    /\ prog_op = "GlobalAveragePool"
    /\ prog_pc = 0
    /\ applicable' =
           GlobalAveragePool_backward_can_be_applied(PoolForward(prog_args.shape), 1)
    /\ prog_pc' = 1
    /\ UNCHANGED <<prog_op, prog_args, tensors, writes>>
    /\ UNCHANGED <<rev_vars, driver_vars, probe_vars, id_vars>>

\* lines 796-807: bwd on an applicable node; every point of the map runs
\* the tasklet once
PoolMap ==
    /\ prog_op = "GlobalAveragePool"
    /\ prog_pc = 1
    /\ applicable = TRUE
    /\ LET shape == desc_shape(PoolForward(prog_args.shape),
                                forward_in_desc_with_name(
                                    PoolForward(prog_args.shape), 1, "X"))
           points == pool_map(shape[1], shape[2], shape[3], shape[4])
           inv == pool_inv(shape[3], shape[4])
       IN  /\ writes' = [e \in Indices(shape) |->
                            Cardinality({ p \in points : pool_write(p) = e })]
           /\ tensors' =
                  [tensors EXCEPT
                      !.X_grad.data =
                          [e \in Indices(shape) |->
                              IF \E p \in points : pool_write(p) = e
                              THEN pool_tasklet(
                                       pool_read(tensors.Y_grad,
                                                 CHOOSE p \in points :
                                                     pool_write(p) = e),
                                       inv)
                              ELSE @[e]]]
    /\ prog_pc' = 2
    /\ UNCHANGED <<prog_op, prog_args, applicable>>
    /\ UNCHANGED <<rev_vars, driver_vars, probe_vars, id_vars>>

ProgInit ==
    /\ RevIdle
    /\ DriverIdle
    /\ ProbeIdle
    /\ IdIdle
    /\ \/ SoftmaxInit
       \/ LogSoftmaxInit
       \/ PoolInit

ProgNext ==
    \/ SoftmaxProd
    \/ SoftmaxSums
    \/ SoftmaxScale
    \/ SoftmaxSubtract
    \/ LogSoftmaxExp
    \/ LogSoftmaxSum
    \/ LogSoftmaxScale
    \/ LogSoftmaxSubtract
    \/ PoolCheck
    \/ PoolMap

SpecProg == ProgInit /\ [][ProgNext]_vars

(***************************************************************************)
(* Claims about the reversal.                                              *)
(***************************************************************************)
\* the elements of s at the positions other than p (1-based), in order
Without(s, p) == SubSeq(s, 1, p - 1) \o SubSeq(s, p + 1, Len(s))

\* C1: reversing in_1,..,in_k->out w.r.t. operand j returns the connectors
\* Inputs__i of every operand i # j in order (k-1 of them) and the expression
\* out,in_1,..,in_{j-1},in_{j+1},..,in_k->in_j.
C1_ReverseContract ==
    rev_pc # "start" =>
        /\ Len(rev1.arrays) = Len(operands) - 1
        /\ \A p \in 1..Len(rev1.arrays) :
               rev1.arrays[p] = InputsConn(IF p <= target THEN p - 1 ELSE p)
        /\ rev1.einsum_str =
               Join(<<out_expr>> \o Without(operands, target + 1), <<",">>)
                   \o <<"-", ">">> \o operands[target + 1]

\* C1 witness: a middle operand of a three-operand equation was reversed
C1_Witness ==
    /\ rev_pc = "once"
    /\ Len(operands) = 3
    /\ target = 1
    /\ operands[1] # operands[3]
    /\ out_expr # operands[2]

\* C2: without repeated labels in an operand, reversing w.r.t. operand j
\* and then reversing the result w.r.t. its first operand gives
\* in_j,in_1,..,in_{j-1},in_{j+1},..,in_k->out.
C2_DoubleReverse ==
    (rev_pc = "twice" /\ \A p \in 1..Len(operands) : NoRepeatedLabel(operands[p])) =>
        /\ EinsumParser(rev2.einsum_str).output = out_expr
        /\ EinsumParser(rev2.einsum_str).inputs =
               <<operands[target + 1]>> \o Without(operands, target + 1)

\* C2 witness: the double reversal of a last operand of three, no repeats
C2_Witness ==
    /\ rev_pc = "twice"
    /\ Len(operands) = 3
    /\ target = 2
    /\ \A p \in 1..3 : NoRepeatedLabel(operands[p])
    /\ operands[3] # operands[1]
    /\ out_expr # operands[3]

(***************************************************************************)
(* Claims about the backward pass.                                         *)
(***************************************************************************)
\* the unit the last backward() call embedded
LastUnit == backward_state.units[last.unit]

\* the last call was a backward() of op that returned
Returned(op) == last.op = op /\ ~last.raised /\ last.unit # 0

\* the number of statements of code that apply op to the handle h
Count(code, op, h) ==
    Cardinality({ i \in 1..Len(code) : code[i].op = op /\ code[i].h = h })

\* the handles to which the statements of code apply op
Handles(code, op) == { s.h : s \in Range(StmtsOf(code, op)) }

C4_ResultNamesRequested ==
    (last.node # 0 /\ ~last.raised) =>
        /\ Keys(last.required_grad_names) \subseteq Range(last.required_gradients)
        /\ Cardinality(Values(last.required_grad_names)
                           \cup Values(last.given_grad_names))
               = Cardinality(last.required_grad_names)
                     + Cardinality(last.given_grad_names)
        /\ Values(last.required_grad_names) \cup Values(last.given_grad_names)
               \subseteq Names(LastUnit.arrays)

\* the forward operands the reversed nodes of required_gradients refer to:
\* for each required connector, every other input connector of the node
ReferencedForwardInputs(attrs, required_gradients) ==
    { c \in InConnectorsOf(attrs) :
          \E q \in 1..Len(required_gradients) : required_gradients[q] # c }

\* C5: the Einsum backward builds one reversed einsum node per required
\* connector in one state; Inputs__0 of each is fed by the one read node of
\* the output gradient; no array of the unit has two read nodes; the unit is
\* embedded with inputs = the output gradient and the forward operands
\* referred to, and outputs = the input gradients produced.
C5_EinsumUnit ==
    Returned("Einsum") =>
        LET u == LastUnit
            given == Get(last.given_grad_names, "Output")
        IN  /\ Len(u.einsums) = Len(last.required_gradients)
            /\ \A e \in 1..Len(u.einsums) :
                   /\ u.einsums[e].name = last.required_gradients[e] \o "_backward"
                   /\ { x \in u.edges : x.dst_kind = "einsum" /\ x.dst = e
                                            /\ x.dst_conn = "Inputs__0" }
                          = { Edge("read", 1, "", "einsum", e, "Inputs__0", given) }
            /\ u.reads[1] = given
            /\ Cardinality({ i \in 1..Len(u.reads) : u.reads[i] = given }) = 1
            /\ \A i, j \in 1..Len(u.reads) : i # j => u.reads[i] # u.reads[j]
            /\ u.inputs = {given}
                   \cup ReferencedForwardInputs(forward_nodes[last.node],
                                                last.required_gradients)
            /\ u.outputs = Values(last.required_grad_names)
            /\ u.outputs = Range(u.writes)
            /\ Cardinality(u.outputs) = Len(last.required_gradients)

\* C5 witness: two gradients of a three-operand node, which share an operand
C5_Witness ==
    /\ Returned("Einsum")
    /\ Len(last.required_gradients) = 2
    /\ Cardinality(InConnectorsOf(forward_nodes[last.node])) = 3
    /\ Len(LastUnit.reads) = 4

\* every handle created in code_init is created once and released once in
\* code_exit, nothing else is released, and the one buffer allocated is
\* freed once
HandlesPaired(t) ==
    /\ Handles(t.code_init, "new") = Handles(t.code_exit, "delete")
    /\ \A h \in Handles(t.code_init, "new") :
           /\ Count(t.code_init, "new", h) = 1
           /\ Count(t.code_exit, "delete", h) = 1
    /\ Handles(t.code_init, "malloc") = Handles(t.code_exit, "free")
    /\ Len(StmtsOf(t.code_init, "malloc")) = 1
    /\ Len(StmtsOf(t.code_exit, "free")) = 1

\* the handles code_init creates or allocates
Created(t) == Handles(t.code_init, "new") \cup Handles(t.code_init, "malloc")

\* C6 as stated: for Conv and BatchNormalization the handles created in the
\* init code are the handles released in the exit code, each once, the
\* workspace is allocated once and freed once, and the created handles are
\* the handles declared as state fields.
C6_HandlesPairedAndDeclared ==
    (Returned("Conv") \/ Returned("BatchNormalization")) =>
        /\ HandlesPaired(LastUnit.tasklet)
        /\ Created(LastUnit.tasklet) = LastUnit.tasklet.state_fields

\* C6 amended: the handles created are the handles released, each once, the
\* workspace is allocated once and freed once, and every created handle is
\* declared as a state field (fields may be declared that are never created).
C6_HandlesPaired ==
    (Returned("Conv") \/ Returned("BatchNormalization")) =>
        /\ HandlesPaired(LastUnit.tasklet)
        /\ Created(LastUnit.tasklet) \subseteq LastUnit.tasklet.state_fields

\* C6 witness: a Conv unit with the bias gradient, after a BatchNormalization
C6_Witness ==
    /\ Returned("Conv")
    /\ "B" \in Range(last.required_gradients)
    /\ Len(backward_state.units) = 2
    /\ backward_state.units[1].tasklet.out_connectors = {"_dX", "_dScale", "_dBias"}

\* C7: the BatchNormalization backward() itself leaves the forward node's
\* connectors and the forward graph's arrays and edges unchanged; they
\* change only when the hook runs.
C7_ForwardUnchangedBySynthesize ==
    (pc = "visit" /\ last.op = "BatchNormalization") =>
        /\ forward.out_connectors = before.forward.out_connectors
        /\ forward.in_connectors = before.forward.in_connectors
        /\ forward.arrays = before.forward.arrays
        /\ forward.edges = before.forward.edges

\* C8: hooks run in the order of registration, each at most once and, when
\* the pass is done, each exactly once; none runs while nodes are visited;
\* a BatchNormalization backward() that returns has appended exactly one
\* hook and run none.
C8_HooksOnceInOrder ==
    /\ Len(hooks_run) <= Len(completion_hooks)
    /\ \A i \in 1..Len(hooks_run) : hooks_run[i] = i
    /\ pc = "done" => Len(hooks_run) = Len(completion_hooks)
    /\ pc = "visit" => hooks_run = <<>>
    /\ (pc = "visit" /\ Returned("BatchNormalization")) =>
           /\ completion_hooks = Append(before.completion_hooks, last.node)
           /\ hooks_run = before.hooks_run

\* C8 witness: a finished pass that ran the hooks of two nodes
C8_Witness ==
    /\ pc = "done"
    /\ Len(hooks_run) = 2
    /\ completion_hooks[1] # completion_hooks[2]

C10_RaiseChangesNothing ==
    last.raised =>
        /\ backward_state = before.backward_state
        /\ forward = before.forward
        /\ completion_hooks = before.completion_hooks

C12_UniqueIdInjective ==
    /\ (id_pc \in {"forward", "backward"} /\ id_nodes[1] # id_nodes[2]) =>
           id_names[1].fwd # id_names[2].fwd
    /\ id_pc = "backward" =>
           /\ id_nodes[1] # id_nodes[2] =>
                  /\ id_names[1].bwd # id_names[2].bwd
                  /\ id_names[1].handles \cap id_names[2].handles = {}
           /\ \A i \in 1..2 :
                  /\ id_names[i].bwd # id_names[i].fwd
                  /\ id_names[i].handles # {}

\* C12 witness: two nodes named, the name of one being the name of the
\* other followed by what looks like an id, and one id having two digits
C12_Witness ==
    /\ id_pc = "backward"
    /\ id_nodes[1].name = "conv_1" /\ id_nodes[1].sdfg_id = 1
    /\ id_nodes[1].state_id = 1 /\ id_nodes[1].node_id = 0
    /\ id_nodes[2].name = "conv_1_1" /\ id_nodes[2].sdfg_id = 1
    /\ id_nodes[2].state_id = 0 /\ id_nodes[2].node_id = 11

(***************************************************************************)
(* Claims about the descriptors of the built units.                        *)
(***************************************************************************)
\* the arrays of unit u that are handed to it through its input connectors
ImportedArrays(u) == { a \in u.arrays : a.name \in u.inputs }

\* C13: in every embedded unit, of whatever implementation, each array
\* that is an input of the unit (a forward input or output, a saved
\* statistic, a reserved buffer) is declared non-transient, and the call
\* that built the unit left the descriptors of the forward sdfg as they were.
C13_ImportsNonTransient ==
    /\ \A u \in 1..Len(backward_state.units) :
           \A a \in ImportedArrays(backward_state.units[u]) : ~a.transient
    /\ (last.node # 0 /\ ~last.raised) =>
           before.forward.arrays \subseteq forward.arrays

(***************************************************************************)
(* Claims about the backward programs.                                     *)
(***************************************************************************)
\* the sum over axis dim of the products A[q] * B[q], q running through
\* the index tuples that agree with p off that axis
RECURSIVE DotAlong(_, _, _, _, _)
DotAlong(A, B, p, ax, k) ==
    IF k = 0 THEN 0
    ELSE A.data[[p EXCEPT ![ax] = k - 1]] * B.data[[p EXCEPT ![ax] = k - 1]]
             + DotAlong(A, B, p, ax, k - 1)

\* C14: when softmax_backward has run, for every output o, output_grad g
\* and element p, input_grad[p] = o[p] * (g[p] - sum over the axis of o * g),
\* and sums has the shape of the output with the reduced axis of size 1.
C14_SoftmaxBackward ==
    (prog_op = "Softmax" /\ prog_pc = 4) =>
        LET o == prog_args.output
            g == prog_args.output_grad
            ax == AxisOf(prog_args.dim, o.shape)
        IN  /\ tensors.input_grad.shape = o.shape
            /\ \A p \in Indices(o.shape) :
                   tensors.input_grad.data[p] =
                       o.data[p] * (g.data[p] - DotAlong(o, g, p, ax, o.shape[ax]))
            /\ Len(tensors.sums.shape) = Len(o.shape)
            /\ \A i \in 1..Len(o.shape) :
                   tensors.sums.shape[i] = IF i = ax THEN 1 ELSE o.shape[i]

\* C14 witness: a run along the first axis in which the sum matters and
\* differs between the two columns
C14_Witness ==
    /\ prog_op = "Softmax"
    /\ prog_pc = 4
    /\ prog_args.dim = 0
    /\ tensors.sums.data[<<0, 0>>] > 0
    /\ tensors.sums.data[<<0, 1>>] < 0
    /\ tensors.input_grad.data[<<1, 0>>] # tensors.prod.data[<<1, 0>>]

\* C15: when logsoftmax_backward has run, for every output, output_grad g
\* and element p, input_grad[p] = g[p] - exp(output[p]) * (sum of g over the
\* axis); and at every statement the arguments output and output_grad are
\* as they were passed.
C15_LogSoftmaxBackward ==
    prog_op = "LogSoftmax" =>
        LET o == prog_args.output
            g == prog_args.output_grad
            ax == AxisOf(prog_args.dim, o.shape)
        IN  /\ tensors.output = o
            /\ tensors.output_grad = g
            /\ prog_pc = 4 =>
                   /\ tensors.input_grad.shape = o.shape
                   /\ \A p \in Indices(o.shape) :
                          tensors.input_grad.data[p] =
                              g.data[p] - (2 ^ o.data[p]) * SumAlong(g, p, ax, o.shape[ax])

\* C15 witness: a run along the last axis on an output that is not
\* constant, with gradients that do not cancel
C15_Witness ==
    /\ prog_op = "LogSoftmax"
    /\ prog_pc = 4
    /\ prog_args.dim = -1
    /\ prog_args.output.data[<<0, 0>>] # prog_args.output.data[<<0, 1>>]
    /\ tensors.grad_output_sum.data[<<0, 0>>] = 2
    /\ tensors.grad_output_sum.data[<<1, 0>>] = -1

\* the extent of the two spatial axes of X
Spatial(shape) == shape[3] * shape[4]

\* C16: backward_can_be_applied accepts a GlobalAveragePool node exactly
\* when X has rank 4, and bwd on an accepted node of shape (N, C, H, W)
\* writes every X_grad[n, c, h, w] once, with Y_grad[n, c] / (H * W), the
\* same at every (h, w) of a slice.
C16_GlobalAveragePoolBackward ==
    prog_op = "GlobalAveragePool" =>
        /\ prog_pc = 0 => ~applicable
        /\ prog_pc >= 1 => (applicable <=> Len(prog_args.shape) = 4)
        /\ prog_pc = 2 =>
               /\ DOMAIN writes = Indices(prog_args.shape)
               /\ \A e \in Indices(prog_args.shape) :
                      /\ writes[e] = 1
                      /\ tensors.X_grad.data[e].den # 0
                      /\ tensors.X_grad.data[e].num * Spatial(prog_args.shape) =
                             prog_args.Y_grad.data[<<e[1], e[2], 0, 0>>]
                                 * tensors.X_grad.data[e].den
                      /\ tensors.X_grad.data[e] =
                             tensors.X_grad.data[<<e[1], e[2], 0, 0>>]
               /\ tensors.Y_grad = prog_args.Y_grad

\* C16 witness: bwd has run on a node with more than one batch entry,
\* channel and spatial position and with different gradients
C16_Witness ==
    /\ prog_op = "GlobalAveragePool"
    /\ prog_pc = 2
    /\ prog_args.shape = <<2, 2, 2, 2>>
    /\ prog_args.Y_grad.data[<<0, 1, 0, 0>>] = 1
    /\ prog_args.Y_grad.data[<<1, 0, 0, 0>>] = -1

(***************************************************************************)
(* Claims about what backward() leaves alone.                              *)
(***************************************************************************)
\* C17: a backward() of Einsum, Softmax, LogSoftmax, Conv or
\* GlobalAveragePool leaves the forward graph (the connectors of the node
\* and of every other node, the arrays, the nodes and the edges) as it was
\* before the call, and appends no completion hook.
C17_OnlyBatchNormTouchesForward ==
    (pc = "visit" /\ last.node # 0 /\ ~last.raised
         /\ last.op # "BatchNormalization") =>
        /\ forward.in_connectors = before.forward.in_connectors
        /\ forward.out_connectors = before.forward.out_connectors
        /\ forward.arrays = before.forward.arrays
        /\ forward.nodes = before.forward.nodes
        /\ forward.edges = before.forward.edges
        /\ forward = before.forward
        /\ completion_hooks = before.completion_hooks

\* C17 witness: a Conv backward that returned after a BatchNormalization
\* backward had changed the forward graph and queued a hook
C17_Witness ==
    /\ pc = "visit"
    /\ Returned("Conv")
    /\ Len(completion_hooks) = 1
    /\ Cardinality(forward.arrays) > Cardinality(ForwardGraph(forward_nodes).arrays)

(***************************************************************************)
(* Claims about the handles the Conv code dereferences.                    *)
(***************************************************************************)
\* every handle a statement of code dereferences at position i has been
\* created by an earlier statement of code
CreatedBeforeUse(code) ==
    \A i \in 1..Len(code) :
        code[i].op = "use" =>
            \E j \in 1..(i - 1) :
                code[j].op \in {"new", "malloc"} /\ code[j].h = code[i].h

\* C18: for Conv and every non-empty list of required gradients among X,
\* W, B, every handle the init code dereferences has been created earlier
\* in the init code, every handle the tasklet code dereferences is created
\* in the init code, all of them are declared state fields; the
\* backward-data and backward-filter kernels are always called and the
\* backward-bias kernel exactly when B is required.
C18_ConvHandlesCreatedBeforeUse ==
    Returned("Conv") =>
        LET t == LastUnit.tasklet
        IN  /\ CreatedBeforeUse(t.code_init)
            /\ Handles(t.code, "use") \subseteq Created(t)
            /\ Handles(t.code_init, "use") \cup Handles(t.code, "use")
                   \subseteq t.state_fields
            /\ "cudnnConvolutionBackwardData" \in Handles(t.code, "call")
            /\ "cudnnConvolutionBackwardFilter" \in Handles(t.code, "call")
            /\ "cudnnConvolutionBackwardBias" \in Handles(t.code, "call")
                   <=> "B" \in Range(last.required_gradients)

====
